---- MODULE Spec2Model ----
(***************************************************************************)
(* Model of the D-Bus blocks of streamtools: the connection helper         *)
(* (st/util/dbus.go and its copy in st/library/fromDBus.go) and the Run    *)
(* loops of the FromDBus and ToDBus blocks that drive it.                  *)
(*                                                                         *)
(* The bus client library (godbus) is the environment: every library call  *)
(* the code makes is appended to the log `calls` together with the handle  *)
(* it was made on and its outcome, and the outcome of each call is chosen  *)
(* nondeterministically by the action that runs the operation.             *)
(***************************************************************************)
EXTENDS Integers, Sequences, FiniteSets, TLC

(***************************************************************************)
(* Bounds of the model.                                                    *)
(***************************************************************************)
\* number of successful dbus.Dial calls in one behaviour
MaxDial == 2

\* length of the signatures that are enumerated in full
MaxSigLen == 3

\* number of values passed to one call of DBusConv
MaxArgs == 2

(***************************************************************************)
(* Strings that the code inspects character by character are sequences of  *)
(* one-character strings.                                                  *)
(***************************************************************************)
UpperChars == <<"A","B","C","D","E","F","G","H","I","J","K","L","M",
                "N","O","P","Q","R","S","T","U","V","W","X","Y","Z">>
LowerChars == <<"a","b","c","d","e","f","g","h","i","j","k","l","m",
                "n","o","p","q","r","s","t","u","v","w","x","y","z">>

\* strings.ToLower on one (ASCII) character
ToLowerChar(c) ==
    IF \E i \in DOMAIN UpperChars : UpperChars[i] = c
    THEN LowerChars[CHOOSE i \in DOMAIN UpperChars : UpperChars[i] = c]
    ELSE c

\* strings.ToLower
ToLower(s) == [i \in DOMAIN s |-> ToLowerChar(s[i])]

\* the literals the address switch compares with
StrSystem    == <<"s","y","s","t","e","m">>
StrAtSystem  == <<"@","s","y","s","t","e","m">>
StrSession   == <<"s","e","s","s","i","o","n">>
StrAtSession == <<"@","s","e","s","s","i","o","n">>

\* the addresses rule messages and callers supply
Addresses ==
    { StrSystem,
      <<"@","S","y","s","t","e","m">>,
      StrSession,
      <<"@","S","E","S","S","I","O","N">>,
      <<"t","c","p",":","a">>,
      <<"t","c","p",":","b">> }

\* the match rules callers supply
Rules == {"r1", "r2"}

(***************************************************************************)
(* Bus handles (values of type dbus.Conn).  The system and the session bus *)
(* are shared singletons of the library; every successful Dial makes a new *)
(* handle.                                                                 *)
(***************************************************************************)
Nil        == <<"nil", 0>>
SystemBus  == <<"system", 0>>
SessionBus == <<"session", 0>>
Dialed(n)  == <<"dial", n>>

SharedHandles == {SystemBus, SessionBus}
DialHandles   == {Dialed(n) : n \in 1..MaxDial}
Handles       == SharedHandles \cup DialHandles

VARIABLES
    driver,        \* who calls the helper: a caller of its API, or a block's Run
    conn,          \* the dbusConn helper: dbus, exclusive, matchRules
    disconnected,  \* handles on which dbus.Conn.Close was called
    nextDial,      \* number of the next handle Dial makes
    calls,         \* library calls made by the last operation, in order
    op,            \* the last operation: name, arguments, result, state on entry
    blk,           \* the local variables of the block's Run loop
    cv             \* a call of the signature engine: its inputs and its outcome

vars == <<driver, conn, disconnected, nextDial, calls, op, blk, cv>>


(***************************************************************************)
(* The state an operation works on, threaded through its steps.            *)
(***************************************************************************)
World(c, dc, nd, cs) ==
    [conn |-> c, disconnected |-> dc, nextDial |-> nd, calls |-> cs]

\* the result of an operation: the state it leaves and the error it returns
Ret(w, e) == [w |-> w, err |-> e]

\* one library call, logged
Call(w, fn, h, arg, ok) ==
    [w EXCEPT !.calls = Append(@, [fn |-> fn, h |-> h, arg |-> arg, ok |-> ok])]

\* dbus.Conn.Close on handle h
HandleClose(w, h, ok) ==
    [Call(w, "Close", h, "", ok) EXCEPT !.disconnected = @ \cup {h}]

\* BusObject().Call("org.freedesktop.DBus.AddMatch", 0, rule) on handle h
AddMatch(w, h, rule, ok) == Call(w, "AddMatch", h, rule, ok)

\* BusObject().Call("org.freedesktop.DBus.RemoveMatch", 0, rule) on handle h
RemoveMatch(w, h, rule, ok) == Call(w, "RemoveMatch", h, rule, ok)

(***************************************************************************)
(* The map matchRules.  The code maps every recorded rule to true; the     *)
(* model maps it to the handle its AddMatch succeeded on, so that a state  *)
(* tells on which handle a recorded rule is registered.                    *)
(***************************************************************************)
EmptyMap == [r \in {} |-> Nil]

\* matchRules[rule] = true, after a successful AddMatch on handle h
MapSet(m, rule, h) ==
    [r \in DOMAIN m \cup {rule} |-> IF r = rule THEN h ELSE m[r]]

\* delete(matchRules, rule)
MapDelete(m, rule) == [r \in DOMAIN m \ {rule} |-> m[r]]

\* the outcomes of the library calls one open can make: all succeed, or one fails
AllOk == [bus |-> TRUE, dial |-> TRUE, auth |-> TRUE, hello |-> TRUE]
OpenOutcomes ==
    { AllOk, [AllOk EXCEPT !.bus = FALSE], [AllOk EXCEPT !.dial = FALSE],
      [AllOk EXCEPT !.auth = FALSE], [AllOk EXCEPT !.hello = FALSE] }

\* dbus.Dial succeeds: the environment lets it, and a handle is left to give
DialOk(w, o) == o.dial /\ w.nextDial <= MaxDial

\* the orders in which a range over the map matchRules can visit its keys
Orders(S) ==
    {f \in [1..Cardinality(S) -> S] : \A i, j \in DOMAIN f : f[i] = f[j] => i = j}

(***************************************************************************)
(* st/util/dbus.go: the exported connection helper.                        *)
(***************************************************************************)
NewDBusConn == [dbus |-> Nil, exclusive |-> FALSE, matchRules |-> EmptyMap]

IsOpen(c) == c.dbus # Nil

\* variant of DialAuthHello that returns the error of a failed step but keeps
\* the dialed handle: no rollback
DialAuthHello_NoRollback(w, address, o) ==
    IF ~DialOk(w, o)
    THEN Ret([Call(w, "Dial", Nil, "", FALSE) EXCEPT
                 !.conn.dbus = Nil, !.conn.exclusive = TRUE], TRUE)
    ELSE
      LET h  == Dialed(w.nextDial)
          w1 == [Call(w, "Dial", h, "", TRUE) EXCEPT
                    !.nextDial = @ + 1,
                    !.conn.dbus = h, !.conn.exclusive = TRUE]
          w2 == Call(w1, "Auth", h, "", o.auth)
          w3 == Call(w2, "Hello", h, "", o.hello)
      IN IF ~o.auth THEN Ret(w2, TRUE)
         ELSE IF ~o.hello THEN Ret(w3, TRUE)
         ELSE Ret(w3, FALSE)

\* the default branch of Open: dial by address, authenticate, initialize
DialAuthHello(w, address, o) ==
    IF ~DialOk(w, o)
    THEN Ret([Call(w, "Dial", Nil, "", FALSE) EXCEPT
                 !.conn.dbus = Nil, !.conn.exclusive = TRUE], TRUE)
    ELSE
      LET h  == Dialed(w.nextDial)
          w1 == [Call(w, "Dial", h, "", TRUE) EXCEPT
                    !.nextDial = @ + 1,
                    !.conn.dbus = h, !.conn.exclusive = TRUE]
          w2 == Call(w1, "Auth", h, "", o.auth)
          w3 == Call(w2, "Hello", h, "", o.hello)
      IN IF ~o.auth
         THEN Ret([HandleClose(w2, h, TRUE) EXCEPT !.conn.dbus = Nil], TRUE)
         ELSE IF ~o.hello
         THEN Ret([HandleClose(w3, h, TRUE) EXCEPT !.conn.dbus = Nil], TRUE)
         ELSE Ret(w3, FALSE)

Open(w, address, o) ==
    LET la == ToLower(address) IN
    IF la \in {StrAtSystem, StrSystem}
    THEN Ret([Call(w, "SystemBus", SystemBus, "", o.bus) EXCEPT
                 !.conn.dbus = IF o.bus THEN SystemBus ELSE Nil,
                 !.conn.exclusive = FALSE], ~o.bus)
    ELSE IF la \in {StrAtSession, StrSession}
    THEN Ret([Call(w, "SessionBus", SessionBus, "", o.bus) EXCEPT
                 !.conn.dbus = IF o.bus THEN SessionBus ELSE Nil,
                 !.conn.exclusive = FALSE], ~o.bus)
    ELSE DialAuthHello(w, address, o)

\* variant of Close that disconnects whatever handle is open, shared or not
Close_AlwaysDisconnect(w, ok) ==
    IF w.conn.dbus # Nil
    THEN Ret([HandleClose(w, w.conn.dbus, ok) EXCEPT !.conn.dbus = Nil], ~ok)
    ELSE Ret(w, FALSE)

\* ok: whether dbus.Conn.Close, if called, reports no error
Close(w, ok) ==
    IF w.conn.dbus # Nil
    THEN IF w.conn.exclusive
         THEN Ret([HandleClose(w, w.conn.dbus, ok) EXCEPT !.conn.dbus = Nil], ~ok)
         ELSE Ret([w EXCEPT !.conn.dbus = Nil], FALSE)
    ELSE Ret(w, FALSE)

\* variant of InsertMatchRule without the test for a recorded rule
InsertMatchRule_NoDedup(w, rule, ok) ==
    IF w.conn.dbus # Nil
    THEN LET w1 == AddMatch(w, w.conn.dbus, rule, ok)
         IN IF ok
            THEN Ret([w1 EXCEPT !.conn.matchRules = MapSet(@, rule, w.conn.dbus)], FALSE)
            ELSE Ret(w1, TRUE)
    ELSE Ret(w, FALSE)

\* variant of InsertMatchRule that records the rule before it looks at the
\* outcome of AddMatch
InsertMatchRule_RecordAlways(w, rule, ok) ==
    IF w.conn.dbus # Nil /\ rule \notin DOMAIN w.conn.matchRules
    THEN LET w1 == AddMatch(w, w.conn.dbus, rule, ok)
         IN Ret([w1 EXCEPT !.conn.matchRules = MapSet(@, rule, w.conn.dbus)], ~ok)
    ELSE Ret(w, FALSE)

InsertMatchRule(w, rule, ok) ==
    IF w.conn.dbus # Nil /\ rule \notin DOMAIN w.conn.matchRules
    THEN LET w1 == AddMatch(w, w.conn.dbus, rule, ok)
         IN IF ok
            THEN Ret([w1 EXCEPT !.conn.matchRules = MapSet(@, rule, w.conn.dbus)], FALSE)
            ELSE Ret(w1, TRUE)
    ELSE Ret(w, FALSE)

\* variant of RemoveMatchRule that drops the rule before it looks at the
\* outcome of RemoveMatch
RemoveMatchRule_DropAlways(w, rule, ok) ==
    IF w.conn.dbus # Nil /\ rule \in DOMAIN w.conn.matchRules
    THEN LET w1 == RemoveMatch(w, w.conn.dbus, rule, ok)
         IN Ret([w1 EXCEPT !.conn.matchRules = MapDelete(@, rule)], ~ok)
    ELSE Ret(w, FALSE)

\* variant of RemoveMatchRule that forgets a recorded rule when the connection
\* is closed
RemoveMatchRule_DropWhenClosed(w, rule, ok) ==
    IF rule \in DOMAIN w.conn.matchRules
    THEN IF w.conn.dbus # Nil
         THEN LET w1 == RemoveMatch(w, w.conn.dbus, rule, ok)
              IN IF ok
                 THEN Ret([w1 EXCEPT !.conn.matchRules = MapDelete(@, rule)], FALSE)
                 ELSE Ret(w1, TRUE)
         ELSE Ret([w EXCEPT !.conn.matchRules = MapDelete(@, rule)], FALSE)
    ELSE Ret(w, FALSE)

RemoveMatchRule(w, rule, ok) ==
    IF w.conn.dbus # Nil /\ rule \in DOMAIN w.conn.matchRules
    THEN LET w1 == RemoveMatch(w, w.conn.dbus, rule, ok)
         IN IF ok
            THEN Ret([w1 EXCEPT !.conn.matchRules = MapDelete(@, rule)], FALSE)
            ELSE Ret(w1, TRUE)
    ELSE Ret(w, FALSE)

\* variant of the loop of RemoveAllMatchRules that goes on after a failure
\* whatever force is
RECURSIVE RemoveAllLoop_Continue(_, _, _, _, _, _)
RemoveAllLoop_Continue(w, order, i, force, oks, err) ==
    IF i > Len(order)
    THEN Ret(w, err)
    ELSE LET r == RemoveMatchRule(w, order[i], oks[order[i]])
         IN RemoveAllLoop_Continue(r.w, order, i + 1, force, oks, err \/ r.err)

\* the loop of RemoveAllMatchRules from position i of the visiting order;
\* err is the error of the last removal so far
RECURSIVE RemoveAllLoop(_, _, _, _, _, _)
RemoveAllLoop(w, order, i, force, oks, err) ==
    IF i > Len(order)
    THEN Ret(w, err)
    ELSE LET r == RemoveMatchRule(w, order[i], oks[order[i]])
         IN IF r.err /\ ~force
            THEN Ret(r.w, r.err)
            ELSE RemoveAllLoop(r.w, order, i + 1, force, oks, r.err)

\* variant of RemoveAllMatchRules without the forced clean
RemoveAllMatchRules_NoClear(w, force, order, oks) ==
    RemoveAllLoop(w, order, 1, force, oks, FALSE)

RemoveAllMatchRules(w, force, order, oks) ==
    LET r == RemoveAllLoop(w, order, 1, force, oks, FALSE)
    IN IF force
       THEN Ret([r.w EXCEPT !.conn.matchRules = EmptyMap], r.err)
       ELSE r

(***************************************************************************)
(* st/library/fromDBus.go: the block's own copy of the helper.  Its open   *)
(* also subscribes the signal channel.                                     *)
(***************************************************************************)
newDBusConn == [dbus |-> Nil, exclusive |-> FALSE, matchRules |-> EmptyMap]

isOpen(c) == c.dbus # Nil

dialAuthHello(w, address, o) ==
    IF ~DialOk(w, o)
    THEN Ret([Call(w, "Dial", Nil, "", FALSE) EXCEPT
                 !.conn.dbus = Nil, !.conn.exclusive = TRUE], TRUE)
    ELSE
      LET h  == Dialed(w.nextDial)
          w1 == [Call(w, "Dial", h, "", TRUE) EXCEPT
                    !.nextDial = @ + 1,
                    !.conn.dbus = h, !.conn.exclusive = TRUE]
          w2 == Call(w1, "Auth", h, "", o.auth)
          w3 == Call(w2, "Hello", h, "", o.hello)
      IN IF ~o.auth
         THEN Ret([HandleClose(w2, h, TRUE) EXCEPT !.conn.dbus = Nil], TRUE)
         ELSE IF ~o.hello
         THEN Ret([HandleClose(w3, h, TRUE) EXCEPT !.conn.dbus = Nil], TRUE)
         ELSE Ret(w3, FALSE)

open(w, address, o) ==
    LET la == ToLower(address)
        r  == IF la \in {StrAtSystem, StrSystem}
              THEN Ret([Call(w, "SystemBus", SystemBus, "", o.bus) EXCEPT
                           !.conn.dbus = IF o.bus THEN SystemBus ELSE Nil,
                           !.conn.exclusive = FALSE], ~o.bus)
              ELSE IF la \in {StrAtSession, StrSession}
              THEN Ret([Call(w, "SessionBus", SessionBus, "", o.bus) EXCEPT
                           !.conn.dbus = IF o.bus THEN SessionBus ELSE Nil,
                           !.conn.exclusive = FALSE], ~o.bus)
              ELSE dialAuthHello(w, address, o)
    IN \* watch for signals
       IF r.w.conn.dbus # Nil /\ ~r.err
       THEN Ret(Call(r.w, "Signal", r.w.conn.dbus, "", TRUE), r.err)
       ELSE r

\* variant of close that drops the reference and never disconnects
close_DropOnly(w, ok) ==
    IF w.conn.dbus # Nil
    THEN Ret([w EXCEPT !.conn.dbus = Nil], FALSE)
    ELSE Ret(w, FALSE)

close(w, ok) ==
    IF w.conn.dbus # Nil
    THEN IF w.conn.exclusive
         THEN Ret([HandleClose(w, w.conn.dbus, ok) EXCEPT !.conn.dbus = Nil], ~ok)
         ELSE Ret([w EXCEPT !.conn.dbus = Nil], FALSE)
    ELSE Ret(w, FALSE)

insertMatchRule(w, rule, ok) ==
    IF w.conn.dbus # Nil /\ rule \notin DOMAIN w.conn.matchRules
    THEN LET w1 == AddMatch(w, w.conn.dbus, rule, ok)
         IN IF ok
            THEN Ret([w1 EXCEPT !.conn.matchRules = MapSet(@, rule, w.conn.dbus)], FALSE)
            ELSE Ret(w1, TRUE)
    ELSE Ret(w, FALSE)

removeMatchRule(w, rule, ok) ==
    IF w.conn.dbus # Nil /\ rule \in DOMAIN w.conn.matchRules
    THEN LET w1 == RemoveMatch(w, w.conn.dbus, rule, ok)
         IN IF ok
            THEN Ret([w1 EXCEPT !.conn.matchRules = MapDelete(@, rule)], FALSE)
            ELSE Ret(w1, TRUE)
    ELSE Ret(w, FALSE)

RECURSIVE removeAllLoop(_, _, _, _, _, _)
removeAllLoop(w, order, i, force, oks, err) ==
    IF i > Len(order)
    THEN Ret(w, err)
    ELSE LET r == removeMatchRule(w, order[i], oks[order[i]])
         IN IF r.err /\ ~force
            THEN Ret(r.w, r.err)
            ELSE removeAllLoop(r.w, order, i + 1, force, oks, r.err)

removeAllMatchRules(w, force, order, oks) ==
    LET r == removeAllLoop(w, order, 1, force, oks, FALSE)
    IN IF force
       THEN Ret([r.w EXCEPT !.conn.matchRules = EmptyMap], r.err)
       ELSE r

(***************************************************************************)
(* The helper driven through its API.  A caller opens a helper that is     *)
(* closed, as both Run loops do (fromDBus.go:61-70, toDBus.go:87-95);      *)
(* every other operation is called in any state.                           *)
(***************************************************************************)
ApiDrivers == {"util", "library"}

Start == World(conn, disconnected, nextDial, <<>>)

NoAddr == <<>>
NoRule == ""

\* the record of an operation: its name and arguments, the error it returned,
\* the helper on entry, whether the address differs from the block's on entry,
\* and whether it repeats an insertRule whose AddMatch has just succeeded
OpRec(name, addr, rule, force, err, repeat) ==
    [name |-> name, addr |-> addr, rule |-> rule, force |-> force,
     err |-> err, repeat |-> repeat, pre |-> conn, differs |-> addr # blk.address]

\* no operation yet
NoOp == [name |-> "none", addr |-> NoAddr, rule |-> NoRule, force |-> FALSE,
         err |-> FALSE, repeat |-> FALSE, pre |-> NewDBusConn, differs |-> FALSE]

\* the signature engine is not called by the helper
NoConv ==
    [fn |-> "none", sig |-> <<>>, depth |-> 0, args |-> <<>>, rev |-> FALSE, out |-> <<>>]

\* the state after an operation that left world w
Commit(w, rec) ==
    /\ cv' = cv
    /\ conn' = w.conn
    /\ disconnected' = w.disconnected
    /\ nextDial' = w.nextDial
    /\ calls' = w.calls
    /\ op' = rec

\* the blocks' settings, unused while a caller drives the helper
NoBlk == [address |-> NoAddr, filter |-> NoRule, dest |-> "", path |-> "",
          name |-> "", signature |-> "", pc |-> "api"]

OpenOp ==
    /\ driver \in ApiDrivers
    /\ ~IsOpen(conn)
    /\ \E a \in Addresses, o \in OpenOutcomes :
         LET r == IF driver = "util" THEN Open(Start, a, o) ELSE open(Start, a, o)
         IN Commit(r.w, OpRec("open", a, NoRule, FALSE, r.err, FALSE))
    /\ UNCHANGED <<driver, blk>>

CloseOp ==
    /\ driver \in ApiDrivers
    /\ \E ok \in BOOLEAN :
         LET r == IF driver = "util" THEN Close(Start, ok) ELSE close(Start, ok)
         IN Commit(r.w, OpRec("close", NoAddr, NoRule, FALSE, r.err, FALSE))
    /\ UNCHANGED <<driver, blk>>

InsertOp ==
    /\ driver \in ApiDrivers
    /\ \E rule \in Rules, ok \in BOOLEAN :
         LET r == IF driver = "util" THEN InsertMatchRule(Start, rule, ok)
                                     ELSE insertMatchRule(Start, rule, ok)
             again == /\ op.name = "insert"
                      /\ op.rule = rule
                      /\ ~op.err
                      /\ Len(calls) = 1
                      /\ calls[1].fn = "AddMatch"
                      /\ calls[1].ok
         IN Commit(r.w, OpRec("insert", NoAddr, rule, FALSE, r.err, again))
    /\ UNCHANGED <<driver, blk>>

RemoveOp ==
    /\ driver \in ApiDrivers
    /\ \E rule \in Rules, ok \in BOOLEAN :
         LET r == IF driver = "util" THEN RemoveMatchRule(Start, rule, ok)
                                     ELSE removeMatchRule(Start, rule, ok)
         IN Commit(r.w, OpRec("remove", NoAddr, rule, FALSE, r.err, FALSE))
    /\ UNCHANGED <<driver, blk>>

RemoveAllOp ==
    /\ driver \in ApiDrivers
    /\ \E force \in BOOLEAN, order \in Orders(DOMAIN conn.matchRules),
          oks \in [DOMAIN conn.matchRules -> BOOLEAN] :
         LET r == IF driver = "util"
                  THEN RemoveAllMatchRules(Start, force, order, oks)
                  ELSE removeAllMatchRules(Start, force, order, oks)
         IN Commit(r.w, OpRec("removeAll", NoAddr, NoRule, force, r.err, FALSE))
    /\ UNCHANGED <<driver, blk>>

(***************************************************************************)
(* Messages on a block's rule route.  A field is a string or is absent;    *)
(* util.ParseString then returns the empty string and an error.            *)
(***************************************************************************)
AbsentAddr == <<"<absent>">>
Absent     == "<absent>"

\* the result of a handler: the state it leaves, the block's variables, and
\* whether it reported an error with b.Error
Done(w, b, e) == [w |-> w, blk |-> b, err |-> e]

(***************************************************************************)
(* st/library/fromDBus.go: FromDBus.Run.                                   *)
(***************************************************************************)
FromDBusInit ==
    [NoBlk EXCEPT !.address = StrAtSystem,
                  !.filter = "type='signal',sender='org.freedesktop.DBus'",
                  !.pc = "run"]

FromMsgs == [BusName : Addresses \cup {AbsentAddr}, Filter : Rules \cup {Absent}]

\* case msg := <-b.inrule
FromDBusRule(w, b, msg, q) ==
    IF msg.BusName = AbsentAddr THEN Done(w, b, TRUE)
    ELSE IF msg.Filter = Absent THEN Done(w, b, TRUE)
    ELSE
      LET newAddress == msg.BusName
          newFilter  == msg.Filter
          reopen == ~isOpen(w.conn) \/ b.address # newAddress
          \* close previous if need
          wc == IF isOpen(w.conn)
                THEN close(removeAllMatchRules(w, TRUE, q.order, q.oks).w, q.close).w
                ELSE w
          \* try to open new
          ro == open(wc, newAddress, q.o)
      IN IF reopen /\ ro.err
         THEN Done(ro.w, b, TRUE)
         ELSE
           LET w1 == IF reopen THEN ro.w ELSE w
               b1 == IF reopen THEN [b EXCEPT !.address = newAddress] ELSE b
               connCreated == reopen
               \* update filter: remove old
               w2 == removeMatchRule(w1, b1.filter, q.remove).w
               ri == insertMatchRule(w2, newFilter, q.insert)
           IN IF connCreated \/ b1.filter # newFilter
              THEN IF ri.err
                   THEN Done(ri.w, b1, TRUE)
                   ELSE Done(ri.w, [b1 EXCEPT !.filter = newFilter], FALSE)
              ELSE Done(w2, b1, FALSE)

\* variant of the quit handler that closes the connection before it removes
\* the rules
FromDBusQuit_CloseFirst(w, b, q) ==
    Done(removeAllMatchRules(close(w, q.close).w, TRUE, q.order, q.oks).w,
         [b EXCEPT !.pc = "done"], FALSE)

\* case <-b.quit
FromDBusQuit(w, b, q) ==
    Done(close(removeAllMatchRules(w, TRUE, q.order, q.oks).w, q.close).w,
         [b EXCEPT !.pc = "done"], FALSE)

(***************************************************************************)
(* st/library/toDBus.go: ToDBus.Run, on the helper of st/util.             *)
(***************************************************************************)
ToDBusInit ==
    [NoBlk EXCEPT !.address = StrAtSystem,
                  !.dest = "org.freedesktop.Notifications",
                  !.path = "/org/freedesktop/Notifications",
                  !.name = "org.freedesktop.Notifications.Notify",
                  !.signature = "susssasa{sv}i",
                  !.pc = "run"]

\* signatures rule messages carry: one dbus.ParseSignature accepts, one it rejects
GoodSignature == "s"
BadSignature  == "("

\* a rule message is read field by field up to the first absent one
ToMsgs ==
    LET full == [BusName |-> StrSystem, Destination |-> "dest1", Path |-> "/path1",
                 MethodName |-> "name1", Signature |-> GoodSignature]
    IN { [full EXCEPT !.BusName = AbsentAddr] }
       \cup { [full EXCEPT !.BusName = a, !.Destination = Absent] : a \in Addresses }
       \cup { [full EXCEPT !.BusName = a, !.Path = Absent] : a \in Addresses }
       \cup { [full EXCEPT !.BusName = a, !.MethodName = Absent] : a \in Addresses }
       \cup { [full EXCEPT !.BusName = a, !.Signature = s] :
                a \in Addresses, s \in {Absent, BadSignature, GoodSignature} }

\* the string util.ParseString returns for a field
Parsed(v) == IF v = Absent THEN "" ELSE v

\* case msg := <-b.inrule
ToDBusRule(w, b, msg, q) ==
    IF msg.BusName = AbsentAddr THEN Done(w, b, TRUE)
    ELSE
      LET newAddress == msg.BusName
          b1 == [b  EXCEPT !.dest = Parsed(msg.Destination)]
          b2 == [b1 EXCEPT !.path = Parsed(msg.Path)]
          b3 == [b2 EXCEPT !.name = Parsed(msg.MethodName)]
          \* dbus.ParseSignature returns the empty signature with its error
          b4 == [b3 EXCEPT !.signature =
                              IF msg.Signature = BadSignature THEN "" ELSE msg.Signature]
          \* close previous if need
          wc == IF IsOpen(w.conn) THEN Close(w, q.close).w ELSE w
          \* try to open new
          ro == Open(wc, newAddress, q.o)
      IN IF msg.Destination = Absent THEN Done(w, b1, TRUE)
         ELSE IF msg.Path = Absent THEN Done(w, b2, TRUE)
         ELSE IF msg.MethodName = Absent THEN Done(w, b3, TRUE)
         ELSE IF msg.Signature = Absent THEN Done(w, b3, TRUE)
         ELSE IF msg.Signature = BadSignature THEN Done(w, b4, TRUE)
         ELSE IF ~IsOpen(w.conn) \/ b.address # newAddress
              THEN IF ro.err
                   THEN Done(ro.w, b4, TRUE)
                   ELSE Done(ro.w, [b4 EXCEPT !.address = newAddress], FALSE)
              ELSE Done(w, b4, FALSE)

\* case <-b.quit
ToDBusQuit(w, b, q) ==
    Done(Close(w, q.close).w, [b EXCEPT !.pc = "done"], FALSE)

(***************************************************************************)
(* The earlier FromDBus block, which holds the bus handle itself: conn is  *)
(* its variable conn, conn.exclusive its variable connNeedClose.           *)
(***************************************************************************)
FromDBus0Init ==
    [NoBlk EXCEPT !.address = StrSystem,
                  !.filter = "type='signal',sender='*'",
                  !.pc = "run"]

\* openConn tries to open bus and adds corresponding filter
openConn(w, address, filter, o, okAdd) ==
    LET la == ToLower(address)
        \* open corresponding bus
        r  == IF la = StrSystem
              THEN Ret([Call(w, "SystemBus", SystemBus, "", o.bus) EXCEPT
                           !.conn.dbus = IF o.bus THEN SystemBus ELSE Nil,
                           !.conn.exclusive = FALSE], ~o.bus)
              ELSE IF la = StrSession
              THEN Ret([Call(w, "SessionBus", SessionBus, "", o.bus) EXCEPT
                           !.conn.dbus = IF o.bus THEN SessionBus ELSE Nil,
                           !.conn.exclusive = FALSE], ~o.bus)
              ELSE IF ~DialOk(w, o)
              THEN Ret([Call(w, "Dial", Nil, "", FALSE) EXCEPT
                           !.conn.dbus = Nil, !.conn.exclusive = FALSE], TRUE)
              ELSE
                LET h  == Dialed(w.nextDial)
                    w1 == [Call(w, "Dial", h, "", TRUE) EXCEPT
                              !.nextDial = @ + 1,
                              !.conn.dbus = h, !.conn.exclusive = FALSE]
                    w2 == Call(w1, "Auth", h, "", o.auth)
                    w3 == Call(w2, "Hello", h, "", o.hello)
                IN IF ~o.auth
                   THEN Ret([HandleClose(w2, h, TRUE) EXCEPT !.conn.dbus = Nil], TRUE)
                   ELSE IF ~o.hello
                   THEN Ret([HandleClose(w3, h, TRUE) EXCEPT !.conn.dbus = Nil], TRUE)
                   \* need to close custom connection
                   ELSE Ret([w3 EXCEPT !.conn.exclusive = TRUE], FALSE)
    IN IF r.err
       THEN r
       ELSE \* add match
         LET h  == r.w.conn.dbus
             wa == AddMatch(r.w, h, filter, okAdd)
         IN IF ~okAdd
            THEN IF r.w.conn.exclusive
                 THEN Ret([HandleClose(wa, h, TRUE) EXCEPT !.conn.dbus = Nil], TRUE)
                 ELSE Ret([wa EXCEPT !.conn.dbus = Nil], TRUE)
            ELSE Ret(wa, FALSE)

\* case msgI := <-b.inrule
FromDBus0Rule(w, b, msg, q) ==
    LET b1 == [b EXCEPT !.address =
                          IF msg.BusName = AbsentAddr THEN NoAddr ELSE msg.BusName]
        b2 == [b1 EXCEPT !.filter = Parsed(msg.Filter)]
        \* open connection
        wc == IF w.conn.dbus # Nil /\ w.conn.exclusive
              THEN [HandleClose(w, w.conn.dbus, q.close) EXCEPT !.conn.dbus = Nil]
              ELSE w
        ro == openConn(wc, b2.address, b2.filter, q.o, q.insert)
    IN IF msg.BusName = AbsentAddr THEN Done(w, b1, TRUE)
       ELSE IF msg.Filter = Absent THEN Done(w, b2, TRUE)
       ELSE IF ro.err
            THEN Done(ro.w, b2, TRUE)
            ELSE Done(Call(ro.w, "Signal", ro.w.conn.dbus, "", TRUE), b2, FALSE)

\* case <-b.quit
FromDBus0Quit(w, b, q) ==
    LET wc == IF w.conn.dbus # Nil /\ w.conn.exclusive
              THEN [HandleClose(w, w.conn.dbus, q.close) EXCEPT !.conn.dbus = Nil]
              ELSE w
    IN Done(wc, [b EXCEPT !.pc = "done"], FALSE)

(***************************************************************************)
(* The blocks' Run loops as steps of the system.                           *)
(***************************************************************************)
BlockDrivers == {"FromDBus", "ToDBus", "FromDBus0"}

\* whether the rule handler of block d gets as far as opening a connection
WillOpen(d, c, b, msg) ==
    /\ msg.BusName # AbsentAddr
    /\ CASE d = "FromDBus"  -> msg.Filter # Absent /\ (~isOpen(c) \/ b.address # msg.BusName)
         [] d = "ToDBus"    -> /\ Absent \notin {msg.Destination, msg.Path, msg.MethodName}
                               /\ msg.Signature \notin {Absent, BadSignature}
                               /\ (~IsOpen(c) \/ b.address # msg.BusName)
         [] OTHER           -> msg.Filter # Absent

\* whether block d's open of address a dials: the first call it makes is Dial
Dials(d, a) ==
    LET w0 == World(NewDBusConn, {}, 1, <<>>)
        r  == CASE d = "FromDBus" -> open(w0, a, AllOk)
                [] d = "ToDBus"   -> Open(w0, a, AllOk)
                [] OTHER          -> openConn(w0, a, NoRule, AllOk, TRUE)
    IN r.w.calls[1].fn = "Dial"

\* The outcomes of the library calls one rule handler makes.  A call that the
\* handler does not make, or that has no effect in the state it is made in,
\* has the outcome TRUE.
Oracles(d, c, b, msg) ==
    LET opens  == WillOpen(d, c, b, msg)
        closes == opens /\ c.dbus # Nil
        keeps  == d = "FromDBus" /\ ~opens /\ c.dbus # Nil
                    /\ msg.BusName # AbsentAddr /\ msg.Filter # Absent
    IN { q \in [order  : IF closes THEN Orders(DOMAIN c.matchRules)
                                   ELSE {CHOOSE f \in Orders(DOMAIN c.matchRules) : TRUE},
                 oks    : IF closes THEN [DOMAIN c.matchRules -> BOOLEAN]
                                   ELSE {[r \in DOMAIN c.matchRules |-> TRUE]},
                 close  : IF closes /\ c.exclusive THEN BOOLEAN ELSE {TRUE},
                 o      : IF ~opens THEN {AllOk}
                          ELSE IF Dials(d, msg.BusName)
                               THEN {o \in OpenOutcomes : o.bus}
                               ELSE {o \in OpenOutcomes : o.dial /\ o.auth /\ o.hello},
                 remove : IF keeps /\ b.filter \in DOMAIN c.matchRules THEN BOOLEAN ELSE {TRUE},
                 insert : IF d # "ToDBus" /\ (opens \/ keeps) THEN BOOLEAN ELSE {TRUE}] :
            q.o # AllOk => q.insert }

\* the outcomes of the library calls the quit handler makes
QuitOracles(c) ==
    [order  : Orders(DOMAIN c.matchRules),
     oks    : IF c.dbus # Nil THEN [DOMAIN c.matchRules -> BOOLEAN]
                             ELSE {[r \in DOMAIN c.matchRules |-> TRUE]},
     close  : IF c.dbus # Nil /\ c.exclusive THEN BOOLEAN ELSE {TRUE}]

BlkInit(d) ==
    CASE d = "FromDBus"  -> FromDBusInit
      [] d = "ToDBus"    -> ToDBusInit
      [] d = "FromDBus0" -> FromDBus0Init
      [] OTHER           -> NoBlk

\* the state after a handler that returned r
CommitBlk(r, rec) ==
    /\ Commit(r.w, [rec EXCEPT !.err = r.err])
    /\ blk' = r.blk

RuleMsg ==
    /\ driver \in BlockDrivers
    /\ blk.pc = "run"
    /\ \E msg \in IF driver = "ToDBus" THEN ToMsgs ELSE FromMsgs :
         \E q \in Oracles(driver, conn, blk, msg) :
           LET r == CASE driver = "FromDBus" -> FromDBusRule(Start, blk, msg, q)
                      [] driver = "ToDBus"   -> ToDBusRule(Start, blk, msg, q)
                      [] OTHER               -> FromDBus0Rule(Start, blk, msg, q)
               rule == IF driver = "ToDBus" THEN NoRule ELSE msg.Filter
           IN CommitBlk(r, OpRec("rule", msg.BusName, rule, FALSE, FALSE, FALSE))
    /\ UNCHANGED driver

Quit ==
    /\ driver \in BlockDrivers
    /\ blk.pc = "run"
    /\ \E q \in QuitOracles(conn) :
         LET r == CASE driver = "FromDBus" -> FromDBusQuit(Start, blk, q)
                    [] driver = "ToDBus"   -> ToDBusQuit(Start, blk, q)
                    [] OTHER               -> FromDBus0Quit(Start, blk, q)
         IN CommitBlk(r, OpRec("quit", NoAddr, NoRule, FALSE, FALSE, FALSE))
    /\ UNCHANGED driver

\* the state after construction, with d driving
InitFor(d) ==
    /\ driver = d
    /\ conn = NewDBusConn
    /\ disconnected = {}
    /\ nextDial = 1
    /\ calls = <<>>
    /\ op = NoOp
    /\ blk = BlkInit(d)
    /\ cv = NoConv

Init == \E d \in ApiDrivers : InitFor(d)

Next ==
    \/ OpenOp
    \/ CloseOp
    \/ InsertOp
    \/ RemoveOp
    \/ RemoveAllOp

Spec == Init /\ [][Next]_vars

InitBlocks == \E d \in BlockDrivers : InitFor(d)

NextBlocks ==
    \/ RuleMsg
    \/ Quit

SpecBlocks == InitBlocks /\ [][NextBlocks]_vars

(***************************************************************************)
(* st/util/dbus.go: the signature engine.  A signature is a sequence of    *)
(* one-character strings.  Positions are those of the code, counted from   *)
(* 0: Sub(s, i, j) is the slice s[i:j].                                    *)
(***************************************************************************)
Sub(s, i, j) == SubSeq(s, i + 1, j)

\* s[i:]
From(s, i) == SubSeq(s, i + 1, Len(s))

\* an error value: the parts of its message, the signature and the value the
\* message quotes, and the two counts it names; NoErr is nil
MkErr(text, sig, val, got, want) ==
    [text |-> text, sig |-> sig, val |-> val, got |-> got, want |-> want]

NoErr == MkErr(<<>>, <<>>, <<>>, 0, 0)

\* fmt.Errorf("%q - bad signature: ...", sig)
SigErr(reason, sig) == MkErr(<<reason>>, sig, <<>>, 0, 0)

\* fmt.Errorf("%q - ...: %s", sig, e)
WrapErr(reason, sig, e) == MkErr(<<reason>> \o e.text, sig, e.val, e.got, e.want)

\* variant of the loop of match that returns at the first closing delimiter,
\* whatever the match depth
RECURSIVE matchFrom_FirstCloser(_, _, _, _, _)
matchFrom_FirstCloser(s, left, right, i, n) ==
    IF i >= Len(s) THEN -1
    ELSE IF s[i + 1] = left THEN matchFrom_FirstCloser(s, left, right, i + 1, n + 1)
    ELSE IF s[i + 1] = right THEN i
    ELSE matchFrom_FirstCloser(s, left, right, i + 1, n)

\* the loop of match from position i with match depth n
RECURSIVE matchFrom(_, _, _, _, _)
matchFrom(s, left, right, i, n) ==
    IF i >= Len(s) THEN -1
    ELSE IF s[i + 1] = left THEN matchFrom(s, left, right, i + 1, n + 1)
    ELSE IF s[i + 1] = right
         THEN IF n - 1 = 0 THEN i ELSE matchFrom(s, left, right, i + 1, n - 1)
    ELSE matchFrom(s, left, right, i + 1, n)

\* find matching pattern
match(s, left, right) == matchFrom(s, left, right, 0, 0)

\* the type codes that resolve to one fixed type, and the Go type of each
BasicCodes == <<"y", "b", "n", "q", "i", "u", "x", "t", "d", "s", "g", "o", "v", "h">>
BasicTypes == <<"uint8", "bool", "int16", "uint16", "int32", "uint32", "int64",
                "uint64", "float64", "string", "dbus.Signature", "dbus.ObjectPath",
                "dbus.Variant", "dbus.UnixFD">>

IsBasicCode(c) == \E i \in DOMAIN BasicCodes : BasicCodes[i] = c

\* reflect.TypeOf of the zero value the switch names for code c
BasicType(c) == <<BasicTypes[CHOOSE i \in DOMAIN BasicCodes : BasicCodes[i] = c]>>

\* A reflect.Type is the sequence of the tokens of its Go notation; the nil
\* type is the empty sequence.
NilType == <<>>

\* reflect.SliceOf, reflect.MapOf
SliceOf(t) == <<"[]">> \o t

\* reflect.SliceOf applied k times
SlicesOf(k, t) == [i \in 1..k |-> "[]"] \o t

\* the array markers a signature opens with: the characters 'a' that no '{'
\* follows
IsArrayMark(sig, i) == sig[i] = "a" /\ ~(i < Len(sig) /\ sig[i + 1] = "{")
ArrayRun(sig) ==
    LET runs == {n \in 0..Len(sig) : \A i \in 1..n : IsArrayMark(sig, i)}
    IN CHOOSE n \in runs : \A m \in runs : m <= n
MapOf(kt, vt) == <<"map[">> \o kt \o <<"]">> \o vt

\* the most fields a structure type can have: the last case of the switch
MaxFields == 16

\* the anonymous structure of n fields, each of type interface{}
StructOf(n) == <<"struct{">> \o [i \in 1..n |-> "interface {}"] \o <<"}">>

IsStruct(t) == Len(t) > 0 /\ t[1] = "struct{"

\* reflect.Type.NumField
NumField(t) == Len(t) - 2

\* what dbusTypeFor returns
TypeRet(t, rem, err) == [t |-> t, rem |-> rem, err |-> err]

\* get corresponding type according to provided D-Bus signature
RECURSIVE dbusTypeFor(_)
\* the loop that extracts the fields of a structure: sig is what is left of
\* the span, n the number of types appended, t the last of them
RECURSIVE structFields(_, _, _)
structFields(sig, n, t) ==
    IF Len(sig) = 0
    THEN [n |-> n, t |-> t, sig |-> sig, err |-> NoErr]
    ELSE LET r == dbusTypeFor(sig)
         IN IF r.err # NoErr
            THEN [n |-> n, t |-> NilType, sig |-> r.rem, err |-> r.err]
            ELSE structFields(r.rem, n + 1, r.t)

\* case 'a' with '{' next: map
dictTypeFor(sig) ==
    LET i == match(sig, "{", "}") IN
    IF i > 0
    THEN LET rem   == From(sig, i + 1)
             inner == Sub(sig, 2, i) \* omit a{ }
         IN IF Len(inner) <= 1
            THEN TypeRet(NilType, rem, SigErr("bad signature: too short for dicts", inner))
            ELSE LET ksig == Sub(inner, 0, 1) \* key signature
                     vsig == From(inner, 1)   \* value signature
                     k == dbusTypeFor(ksig)
                     v == dbusTypeFor(vsig)
                 IN IF k.err # NoErr
                    THEN TypeRet(NilType, rem,
                                 WrapErr("bad dict's key signature", ksig, k.err))
                    ELSE IF v.err # NoErr
                    THEN TypeRet(NilType, rem,
                                 WrapErr("bad dict's value signature", vsig, v.err))
                    ELSE TypeRet(MapOf(k.t, v.t), rem, NoErr)
    ELSE TypeRet(NilType, <<>>, SigErr("bad signature: unmatched '}'", sig))

\* variant of the structure case that returns as remainder the front of the
\* signature, of the length of what follows the matching )
structTypeFor_RemFromFront(sig) ==
    LET i == match(sig, "(", ")") IN
    IF i > 0
    THEN LET rem   == Sub(sig, 0, Len(sig) - (i + 1))
             inner == Sub(sig, 1, i)
             f     == structFields(inner, 0, NilType)
         IN IF Len(inner) # 0
            THEN IF f.err # NoErr
                 THEN TypeRet(NilType, rem, f.err)
                 ELSE IF f.n \in 1..MaxFields
                 THEN TypeRet(StructOf(f.n), rem, NoErr)
                 ELSE TypeRet(f.t, rem,
                              SigErr("bad signature: structure has too many fields", f.sig))
            ELSE TypeRet(NilType, rem, SigErr("bad signature: empty structure", inner))
    ELSE TypeRet(NilType, <<>>, SigErr("bad signature: unmatched ')'", sig))

\* variant of the structure case whose switch lacks its last case
structTypeFor_NoLastCase(sig) ==
    LET i == match(sig, "(", ")") IN
    IF i > 0
    THEN LET rem   == From(sig, i + 1)
             inner == Sub(sig, 1, i)
             f     == structFields(inner, 0, NilType)
         IN IF Len(inner) # 0
            THEN IF f.err # NoErr
                 THEN TypeRet(NilType, rem, f.err)
                 ELSE IF f.n \in 1..(MaxFields - 1)
                 THEN TypeRet(StructOf(f.n), rem, NoErr)
                 ELSE TypeRet(f.t, rem,
                              SigErr("bad signature: structure has too many fields", f.sig))
            ELSE TypeRet(NilType, rem, SigErr("bad signature: empty structure", inner))
    ELSE TypeRet(NilType, <<>>, SigErr("bad signature: unmatched ')'", sig))

\* case '(': structure
structTypeFor(sig) ==
    LET i == match(sig, "(", ")") IN
    IF i > 0
    THEN LET rem   == From(sig, i + 1)
             inner == Sub(sig, 1, i) \* omit ( )
             f     == structFields(inner, 0, NilType)
         IN IF Len(inner) # 0
            THEN IF f.err # NoErr
                 THEN TypeRet(NilType, rem, f.err)
                 ELSE IF f.n \in 1..MaxFields
                 THEN TypeRet(StructOf(f.n), rem, NoErr)
                 ELSE TypeRet(f.t, rem,
                              SigErr("bad signature: structure has too many fields", f.sig))
            ELSE TypeRet(NilType, rem, SigErr("bad signature: empty structure", inner))
    ELSE TypeRet(NilType, <<>>, SigErr("bad signature: unmatched ')'", sig))

\* The array case calls dbusTypeFor on what follows the marker and wraps the
\* type it gets in a slice; for a run of k markers that is k nested calls and
\* k wrappings around the type of what follows the run, taken here in one
\* step, which keeps the evaluation of a long run flat.
dbusTypeFor(sig) ==
    IF Len(sig) = 0
    THEN TypeRet(NilType, <<>>, SigErr("bad signature: empty", sig))
    ELSE IF IsBasicCode(sig[1])
    THEN TypeRet(BasicType(sig[1]), From(sig, 1), NoErr)
    ELSE IF sig[1] = "a"
    THEN IF Len(sig) > 1 /\ sig[2] = "{"
         THEN dictTypeFor(sig)
         ELSE LET k == ArrayRun(sig)
                  r == dbusTypeFor(From(sig, k)) \* array
              IN IF r.err = NoErr
                 THEN TypeRet(SlicesOf(k, r.t), r.rem, NoErr)
                 ELSE TypeRet(NilType, r.rem, r.err)
    ELSE IF sig[1] = "("
    THEN structTypeFor(sig)
    ELSE TypeRet(NilType, <<>>, SigErr("bad signature: unknown type character", sig))

(***************************************************************************)
(* Values.  A value is a pair of its Go type and its payload; nil is the   *)
(* empty sequence.  A float64 carries its value in tenths, a slice or a    *)
(* structure the sequence of its elements or fields, a map of the input    *)
(* the sequence of its entries <<key, value>>, a map of the output the set *)
(* of its entries.                                                         *)
(***************************************************************************)
NilVal == <<>>

TFloat64 == <<"float64">>
TString  == <<"string">>
TBool    == <<"bool">>
TAnySlice == <<"[]", "interface {}">>
TAnyMap   == <<"map[", "string", "]", "interface {}">>

Float64(tenths) == <<TFloat64, tenths>>
String(x)       == <<TString, x>>
Bool(b)         == <<TBool, b>>
Slice(elems)    == <<TAnySlice, elems>>
Map(entries)    == <<TAnyMap, entries>>
Struct(fields)  == <<StructOf(Len(fields)), fields>>

\* reflect.Type.Kind, as far as the converter looks at it
Kind(t) ==
    IF t[1] = "[]" THEN "slice"
    ELSE IF t[1] = "map[" THEN "map"
    ELSE IF t[1] = "struct{" THEN "struct"
    ELSE t[1]

\* the types of integer kind and of string kind among the basic types
IntTypes == {"uint8", "int16", "uint16", "int32", "uint32", "int64", "uint64",
             "dbus.UnixFD"}
StrTypes == {"string", "dbus.ObjectPath"}

\* reflect.Type.ConvertibleTo, from the type of a value to a basic type
ConvertibleTo(from, to) ==
    \/ from = to
    \/ from[1] \in IntTypes \cup {"float64"} /\ to[1] \in IntTypes \cup {"float64"}
    \/ from[1] \in IntTypes /\ to[1] \in StrTypes
    \/ from[1] \in StrTypes /\ to[1] \in StrTypes

\* reflect.Value.Convert: a float64 is truncated to an integer type
Convert(arg, to) ==
    IF arg[1] = TFloat64 /\ to[1] \in IntTypes
    THEN <<to, arg[2] \div 10>>
    ELSE <<to, arg[2]>>

\* convert value to another type: the value and the error
convTo(arg, to) ==
    IF ConvertibleTo(arg[1], to)
    THEN [res |-> Convert(arg, to), err |-> NoErr]
    ELSE [res |-> NilVal,
          err |-> MkErr(<<"is not convertible to">> \o to, <<>>, arg, 0, 0)]

\* dbus.MakeVariant
MakeVariant(arg) == <<BasicType("v"), arg>>

\* the deepest conversion the code lets through
MaxDepth == 64

\* the run-time panics of the conversion
NoPanic     == ""
PanicField  == "reflect: call of reflect.Value.Field on ptr Value"
PanicBounds == "runtime error: index out of range"

\* What dbusConv returns, or the panic it ends with; deep is the greatest
\* depth of a call that got past the depth guard.
ConvRet(res, rem, err, panic, deep) ==
    [res |-> res, rem |-> rem, err |-> err, panic |-> panic, deep |-> deep]

Max(a, b) == IF a > b THEN a ELSE b

\* toV.SetMapIndex(k, v)
SetMapIndex(m, k, v) == {e \in m : e[1] # k} \cup {<<k, v>>}

\* fromV.MapKeys(): the entries in the order the range visits them
MapKeys(entries, rev) ==
    IF rev THEN [i \in DOMAIN entries |-> entries[Len(entries) + 1 - i]] ELSE entries

\* convert value according to D-Bus signature.  rev tells the order in which
\* a range over a map visits its entries.
RECURSIVE dbusConv(_, _, _, _)

\* the loop over the entries of a map, from entry i (counted from 0) of keys;
\* toV is the map built so far
RECURSIVE mapLoop(_, _, _, _, _, _, _, _, _, _)
mapLoop(ksig, vsig, depth, keys, i, toT, toV, rem, deep, rev) ==
    IF i >= Len(keys)
    THEN ConvRet(<<toT, toV>>, rem, NoErr, NoPanic, deep) \* done
    ELSE LET k  == dbusConv(ksig, depth + 1, keys[i + 1][1], rev)
             v  == dbusConv(vsig, depth + 1, keys[i + 1][2], rev)
             dk == Max(deep, k.deep)
             dv == Max(dk, v.deep)
         IN IF k.panic # NoPanic THEN ConvRet(NilVal, rem, NoErr, k.panic, dk)
            ELSE IF k.err # NoErr THEN ConvRet(NilVal, rem, k.err, NoPanic, dk)
            ELSE IF v.panic # NoPanic THEN ConvRet(NilVal, rem, NoErr, v.panic, dv)
            ELSE IF v.err # NoErr THEN ConvRet(NilVal, rem, v.err, NoPanic, dv)
            ELSE mapLoop(ksig, vsig, depth, keys, i + 1, toT,
                         SetMapIndex(toV, k.res, v.res), rem, dv, rev)

\* variant of the loop over the elements of a slice that puts each converted
\* element in front of those set before it
RECURSIVE sliceLoop_Prepend(_, _, _, _, _, _, _, _, _)
sliceLoop_Prepend(sig, depth, from, i, toT, toV, rem, deep, rev) ==
    IF i >= Len(from)
    THEN ConvRet(<<toT, toV>>, rem, NoErr, NoPanic, deep)
    ELSE LET v == dbusConv(sig, depth + 1, from[i + 1], rev)
             d == Max(deep, v.deep)
         IN IF v.panic # NoPanic THEN ConvRet(NilVal, rem, NoErr, v.panic, d)
            ELSE IF v.err # NoErr THEN ConvRet(NilVal, rem, v.err, NoPanic, d)
            ELSE sliceLoop_Prepend(sig, depth, from, i + 1, toT, <<v.res>> \o toV, rem, d, rev)

\* the loop over the elements of a slice, from element i; toV holds the
\* elements set so far
RECURSIVE sliceLoop(_, _, _, _, _, _, _, _, _)
sliceLoop(sig, depth, from, i, toT, toV, rem, deep, rev) ==
    IF i >= Len(from)
    THEN ConvRet(<<toT, toV>>, rem, NoErr, NoPanic, deep) \* done
    ELSE LET v == dbusConv(sig, depth + 1, from[i + 1], rev)
             d == Max(deep, v.deep)
         IN IF v.panic # NoPanic THEN ConvRet(NilVal, rem, NoErr, v.panic, d)
            ELSE IF v.err # NoErr THEN ConvRet(NilVal, rem, v.err, NoPanic, d)
            ELSE sliceLoop(sig, depth, from, i + 1, toT, Append(toV, v.res), rem, d, rev)

\* The loop over the fields of a structure.  toV is reflect.New(toT), a
\* pointer, so that toV.Field(i) panics as soon as the first field is
\* converted: the loop never reaches its second round.
structLoop(sig, depth, from, rem, rev) ==
    LET v == dbusConv(sig, depth + 1, from[1], rev)
        d == Max(depth, v.deep)
    IN IF v.panic # NoPanic THEN ConvRet(NilVal, rem, NoErr, v.panic, d)
       ELSE IF v.err # NoErr THEN ConvRet(NilVal, rem, v.err, NoPanic, d)
       ELSE ConvRet(NilVal, rem, NoErr, PanicField, d)

\* case 'a' with '{' next: map
dictConv(sig, depth, arg, rev) ==
    LET r == dbusTypeFor(sig) IN
    IF r.err # NoErr
    THEN ConvRet(NilVal, r.rem, r.err, NoPanic, depth)
    ELSE LET inner == Sub(sig, 2, Len(sig) - Len(r.rem) - 1) \* omit a{ }
             ksig  == Sub(inner, 0, 1) \* key signature
             vsig  == From(inner, 1)   \* value signature
         IN IF Kind(arg[1]) = "map"
            THEN mapLoop(ksig, vsig, depth, MapKeys(arg[2], rev), 0,
                         r.t, {}, r.rem, depth, rev)
            ELSE ConvRet(NilVal, r.rem,
                         MkErr(<<"unexpected data to convert map">> \o arg[1],
                               <<>>, <<>>, 0, 0),
                         NoPanic, depth)

\* case 'a' otherwise: array
arrayConv(sig, depth, arg, rev) ==
    LET r == dbusTypeFor(sig) IN
    IF r.err # NoErr
    THEN ConvRet(NilVal, r.rem, r.err, NoPanic, depth)
    ELSE LET esig == Sub(sig, 1, Len(sig) - Len(r.rem)) \* element signature
         IN IF Kind(arg[1]) = "slice"
            THEN sliceLoop(esig, depth, arg[2], 0, r.t, <<>>, r.rem, depth, rev)
            ELSE ConvRet(NilVal, r.rem,
                         MkErr(<<"unexpected data to convert array">> \o arg[1],
                               <<>>, <<>>, 0, 0),
                         NoPanic, depth)

\* case '(': structure
structConv(sig, depth, arg, rev) ==
    LET r == dbusTypeFor(sig) IN
    IF r.err # NoErr
    THEN ConvRet(NilVal, r.rem, r.err, NoPanic, depth)
    ELSE LET inner == Sub(sig, 1, Len(sig) - Len(r.rem)) \* omit ( )
         IN IF Kind(arg[1]) \in {"struct", "slice"}
            THEN IF Len(arg[2]) = NumField(r.t)
                 THEN structLoop(inner, depth, arg[2], r.rem, rev)
                 ELSE ConvRet(NilVal, r.rem,
                              MkErr(<<"unable to convert struct: field count mismatch">>,
                                    inner, <<>>, Len(arg[2]), NumField(r.t)),
                              NoPanic, depth)
            ELSE ConvRet(NilVal, r.rem,
                         MkErr(<<"unexpected data to convert struct">> \o arg[1],
                               <<>>, <<>>, 0, 0),
                         NoPanic, depth)

dbusConv(sig, depth, arg, rev) ==
    IF Len(sig) = 0
    THEN ConvRet(NilVal, <<>>, SigErr("bad signature: empty", sig), NoPanic, -1)
    ELSE IF depth > MaxDepth
    THEN ConvRet(NilVal, <<>>, SigErr("bad signature: nesting too deep", sig), NoPanic, -1)
    ELSE IF IsBasicCode(sig[1]) /\ sig[1] # "v" \* basic types
    THEN LET r == dbusTypeFor(sig)
             c == convTo(arg, r.t)
         IN ConvRet(c.res, r.rem, c.err, NoPanic, depth)
    ELSE IF sig[1] = "v" \* variant
    THEN ConvRet(MakeVariant(arg), From(sig, 1), NoErr, NoPanic, depth)
    ELSE IF sig[1] = "a"
    THEN IF Len(sig) > 1 /\ sig[2] = "{"
         THEN dictConv(sig, depth, arg, rev)
         ELSE arrayConv(sig, depth, arg, rev)
    ELSE IF sig[1] = "("
    THEN structConv(sig, depth, arg, rev)
    ELSE ConvRet(NilVal, <<>>, SigErr("bad signature: unknown type character", sig),
                 NoPanic, depth)

\* variant of the loop of DBusConv that takes the first argument in every round
RECURSIVE convLoop_SameArg(_, _, _, _, _, _)
convLoop_SameArg(s, args, i, res, deep, rev) ==
    IF Len(s) = 0
    THEN ConvRet(res, s, NoErr, NoPanic, deep)
    ELSE IF 0 >= Len(args)
    THEN ConvRet(res, s, NoErr, PanicBounds, deep)
    ELSE LET r == dbusConv(s, 0, args[1], rev)
             d == Max(deep, r.deep)
         IN IF r.panic # NoPanic THEN ConvRet(res, r.rem, NoErr, r.panic, d)
            ELSE IF r.err # NoErr THEN ConvRet(res, r.rem, r.err, NoPanic, d)
            ELSE convLoop_SameArg(r.rem, args, i + 1, Append(res, r.res), d, rev)

\* the loop of DBusConv: s is what is left of the signature, i the index of
\* the next argument, res the values appended so far
RECURSIVE convLoop(_, _, _, _, _, _)
convLoop(s, args, i, res, deep, rev) ==
    IF Len(s) = 0
    THEN ConvRet(res, s, NoErr, NoPanic, deep)
    ELSE IF i >= Len(args)
    THEN ConvRet(res, s, NoErr, PanicBounds, deep) \* args[i]
    ELSE LET r == dbusConv(s, 0, args[i + 1], rev)
             d == Max(deep, r.deep)
         IN IF r.panic # NoPanic THEN ConvRet(res, r.rem, NoErr, r.panic, d)
            ELSE IF r.err # NoErr THEN ConvRet(res, r.rem, r.err, NoPanic, d)
            ELSE convLoop(r.rem, args, i + 1, Append(res, r.res), d, rev)

\* apply D-Bus signature: convert types according to provided signature
DBusConv(signature, args, rev) == convLoop(signature, args, 0, <<>>, -1, rev)

(***************************************************************************)
(* The signature engine called on its own: the state after construction    *)
(* holds the inputs of one call, and a step makes the call.                *)
(***************************************************************************)
\* the characters of the enumerated signatures: two scalar codes, the variant
\* code, the array marker, the delimiters, and a character that is no code
SigChars == {"i", "s", "v", "a", "{", "}", "(", ")", "z"}

\* every signature of at most MaxSigLen characters
GenSigs == UNION {[1..n -> SigChars] : n \in 0..MaxSigLen}

\* n times the character c
Repeat(c, n) == [i \in 1..n |-> c]

\* a structure of n fields, and an array nested k levels deep
StructSig(n) == <<"(">> \o Repeat("i", n) \o <<")">>
DeepSig(k)   == Repeat("a", k) \o <<"i">>

\* a value nested k slices deep
RECURSIVE Nest(_)
Nest(k) == IF k = 0 THEN Float64(10) ELSE Slice(<<Nest(k - 1)>>)

\* the signatures beyond the enumerated ones that are resolved
LongSigs ==
    {StructSig(n) : n \in {5, MaxFields - 1, MaxFields, MaxFields + 1}}
    \cup {<<"a">> \o StructSig(MaxFields + 1), <<"(", "i">> \o StructSig(MaxFields) \o <<")">>}
    \cup {DeepSig(MaxDepth + 2)}
    \cup { <<"a", "{", "i", "}">>, <<"a", "{", "(", "}">>, <<"a", "{", "}", "i">>,
           <<"(", "i", "s", ")">>, <<"(", "(", "i", ")">>, <<"(", "i", ")", "i">>,
           <<"(", "a", "i", ")">>, <<"(", "i", "z", ")">>, <<"a", "(", "i", ")">>,
           <<"a", "a", "a", "i">>, <<"(", "(", "i", ")", ")">> }
    \cup { <<"a", "{", "s", "i", "i", "}">>, <<"a", "{", "s", "a", "i", "}", "s">>,
           <<"a", "{", "s", "(", "i", "s", ")", "}">>, <<"a", "{", "s", "i", "}", "}">>,
           <<"(", "a", "{", "s", "v", "}", "i", ")">>, <<"a", "{", "s", "a", "{", "s", "i", "}", "}">> }

\* the signatures values are converted with
ConvSigs ==
    { <<"i">>, <<"s">>, <<"v">>, <<"s", "i">>, <<"a", "s">>, <<"a", "i">>,
      <<"a", "a", "i">>, <<"a", "v">>, <<"a", "s", "i">>,
      <<"a", "{", "s", "i", "}">>, <<"a", "{", "s", "v", "}">>,
      <<"a", "{", "v", "i", "}">>, <<"a", "{", "i", "s", "}">>,
      <<"a", "{", "a", "i", "}">>, <<"a", "{", "(", "i", "}">>,
      <<"a", "{", "s", "i", "i", "}">>, <<"a", "{", "s", "a", "i", "}">>,
      <<"(", "s", "i", ")">>, <<"(", "s", "s", ")">>, <<"(", "i", ")">>, <<"(", "i", "s", ")", "s">>,
      <<"a", "(", "i", ")">>, <<"(", ")">>, <<"z">>, <<>> }

\* the values that are converted
Values ==
    { Float64(10), Float64(75), String("abc"), Bool(TRUE),
      Slice(<<>>),
      Slice(<<String("a"), String("b"), String("c")>>),
      Slice(<<String("hello"), Float64(70)>>),
      Slice(<<Float64(70), String("hello")>>),
      Slice(<<String("hello"), Float64(70), Float64(90)>>),
      Slice(<<Float64(10), Float64(20)>>),
      Slice(<<Slice(<<Float64(10)>>), Slice(<<Float64(20), String("x")>>)>>),
      Map(<<>>),
      Map(<<<<String("x"), Float64(10)>>, <<String("y"), Float64(20)>>>>),
      Map(<<<<String("x"), Float64(10)>>, <<String("y"), String("abc")>>>>),
      Map(<<<<String("x"), Bool(TRUE)>>, <<String("y"), String("abc")>>>>),
      Struct(<<String("hello"), Float64(70)>>) }

\* the values of the argument lists of more than one value
ArgValues ==
    { Float64(10), String("abc"), Bool(TRUE),
      Slice(<<Float64(10), Float64(20)>>),
      Slice(<<String("hello"), Float64(70)>>),
      Map(<<<<String("x"), Float64(10)>>, <<String("y"), Float64(20)>>>>) }

\* the argument lists of DBusConv
ArgLists ==
    {<<>>} \cup {<<v>> : v \in Values}
    \cup UNION {[1..n -> ArgValues] : n \in 2..MaxArgs}

\* the depths dbusConv is called at: the top level, and around the depth guard
Depths == {0, 1, MaxDepth - 2, MaxDepth - 1, MaxDepth, MaxDepth + 1}

\* the greatest nesting of the nested values that are converted
MaxNest == 3

\* the inputs of one call
ConvInputs ==
    {[NoConv EXCEPT !.sig = s] : s \in GenSigs \cup LongSigs}
    \cup {[NoConv EXCEPT !.sig = s, !.args = a, !.rev = r] :
             s \in ConvSigs, a \in ArgLists \ {<<>>}, r \in BOOLEAN}
    \cup {[NoConv EXCEPT !.sig = s, !.args = <<>>, !.rev = TRUE] : s \in ConvSigs}
    \cup {[NoConv EXCEPT !.sig = DeepSig(k), !.depth = d, !.args = <<v>>, !.rev = r] :
             k \in (0..MaxNest) \cup {MaxDepth + 2}, d \in Depths, r \in BOOLEAN,
             v \in {Nest(n) : n \in 0..MaxNest} \cup {String("abc"), Slice(<<>>)}}
    \cup {[NoConv EXCEPT !.sig = s, !.depth = d, !.args = <<v>>, !.rev = r] :
             s \in ConvSigs, d \in Depths \ {0}, r \in BOOLEAN, v \in Values}

InitConv ==
    /\ driver = "engine"
    /\ conn = NewDBusConn
    /\ disconnected = {}
    /\ nextDial = 1
    /\ calls = <<>>
    /\ op = NoOp
    /\ blk = NoBlk
    /\ cv \in ConvInputs

\* dbusTypeFor(sig)
ResolveOp ==
    /\ driver = "engine"
    /\ cv.fn = "none"
    /\ cv.depth = 0
    /\ ~cv.rev
    /\ cv' = [cv EXCEPT !.fn = "resolve", !.out = dbusTypeFor(cv.sig)]
    /\ UNCHANGED <<driver, conn, disconnected, nextDial, calls, op, blk>>

\* dbusConv(sig, depth, arg)
ConvertOp ==
    /\ driver = "engine"
    /\ cv.fn = "none"
    /\ Len(cv.args) = 1
    /\ cv' = [cv EXCEPT !.fn = "convert",
                        !.out = dbusConv(cv.sig, cv.depth, cv.args[1], cv.rev)]
    /\ UNCHANGED <<driver, conn, disconnected, nextDial, calls, op, blk>>

\* DBusConv(signature, args...)
ConvertAllOp ==
    /\ driver = "engine"
    /\ cv.fn = "none"
    /\ cv.depth = 0
    /\ cv.rev \/ cv.args # <<>>
    /\ cv' = [cv EXCEPT !.fn = "convertAll",
                        !.out = DBusConv(cv.sig, cv.args, cv.rev)]
    /\ UNCHANGED <<driver, conn, disconnected, nextDial, calls, op, blk>>

\* the pairs of delimiters match is called with
Delims == {<<"(", ")">>, <<"{", "}">>}

\* match(sig, left, right)
MatchOp ==
    /\ driver = "engine"
    /\ cv.fn = "none"
    /\ cv.depth = 0
    /\ cv.args = <<>> /\ ~cv.rev
    /\ \E d \in Delims :
          cv' = [cv EXCEPT !.fn = "match",
                           !.out = [left |-> d[1], right |-> d[2],
                                    idx |-> match(cv.sig, d[1], d[2])]]
    /\ UNCHANGED <<driver, conn, disconnected, nextDial, calls, op, blk>>

NextConv ==
    \/ MatchOp
    \/ ResolveOp
    \/ ConvertOp
    \/ ConvertAllOp

SpecConv == InitConv /\ [][NextConv]_vars

(***************************************************************************)
(* Properties of the connection helper, checked under Spec.                *)
(***************************************************************************)
\* the rules a helper records
Recorded(c) == DOMAIN c.matchRules

\* the positions of the log that hold a call of fn
CallsOf(fn) == {i \in DOMAIN calls : calls[i].fn = fn}

\* the log holds exactly one call: fn on handle h with argument arg
OneCall(fn, h, arg) ==
    /\ Len(calls) = 1
    /\ calls[1].fn = fn
    /\ calls[1].h = h
    /\ calls[1].arg = arg

\* C1: on an open connection, an insertRule(r) that directly follows an
\* insertRule(r) whose AddMatch succeeded issues no bus call, returns success
\* and leaves the rule set as it was, so the two calls issue AddMatch once.
C1_SecondInsertIsLocalNoOp ==
    (op.name = "insert" /\ op.repeat) =>
        /\ IsOpen(op.pre)
        /\ calls = <<>>
        /\ ~op.err
        /\ conn = op.pre

C1_Witness == op.name = "insert" /\ op.repeat /\ op.rule \in Recorded(conn)

\* C2: on an open connection, insertRule(r) for a rule that is not recorded
\* issues exactly one AddMatch(r) on the open handle; r is recorded if and only
\* if the call succeeds, and when it fails the error is returned and the helper
\* is unchanged.
C2_InsertRecordsIffAddMatchSucceeds ==
    (op.name = "insert" /\ IsOpen(op.pre) /\ op.rule \notin Recorded(op.pre)) =>
        /\ OneCall("AddMatch", op.pre.dbus, op.rule)
        /\ op.err = ~calls[1].ok
        /\ calls[1].ok  => Recorded(conn) = Recorded(op.pre) \cup {op.rule}
        /\ ~calls[1].ok => conn = op.pre

C2_Witness ==
    /\ op.name = "insert" /\ op.err
    /\ IsOpen(op.pre) /\ op.rule \notin Recorded(conn)
    /\ Recorded(conn) # {}

\* C3: removeRule(r) for a rule that is not recorded returns success without a
\* bus call; for a recorded rule, on an open connection, it issues exactly one
\* RemoveMatch(r) and drops r if and only if the call succeeds, otherwise
\* returning the error with the helper unchanged.
C3_RemoveDropsIffRemoveMatchSucceeds ==
    (op.name = "remove") =>
        /\ (op.rule \notin Recorded(op.pre)) =>
              (calls = <<>> /\ ~op.err /\ conn = op.pre)
        /\ (op.rule \in Recorded(op.pre) /\ IsOpen(op.pre)) =>
              /\ OneCall("RemoveMatch", op.pre.dbus, op.rule)
              /\ op.err = ~calls[1].ok
              /\ calls[1].ok  => Recorded(conn) = Recorded(op.pre) \ {op.rule}
              /\ ~calls[1].ok => conn = op.pre

C3_Witness ==
    /\ op.name = "remove" /\ op.err
    /\ IsOpen(op.pre) /\ op.rule \in Recorded(conn)

\* C4: removeAllRules(force=true) leaves the rule set empty whatever the
\* removals report, and on an open connection it issues RemoveMatch exactly
\* once for every rule recorded on entry.
C4_ForcedRemoveAllEmptiesTheSet ==
    (op.name = "removeAll" /\ op.force) =>
        /\ Recorded(conn) = {}
        /\ IsOpen(op.pre) =>
              /\ Len(calls) = Cardinality(Recorded(op.pre))
              /\ \A r \in Recorded(op.pre) :
                    \E i \in CallsOf("RemoveMatch") :
                        calls[i].arg = r /\ calls[i].h = op.pre.dbus

C4_Witness ==
    /\ op.name = "removeAll" /\ op.force
    /\ Cardinality(Recorded(op.pre)) = 2
    /\ Len(calls) = 2
    /\ \A i \in DOMAIN calls : ~calls[i].ok
    /\ Recorded(conn) = {}

\* C5: removeAllRules(force=false) issues RemoveMatch only for rules recorded
\* on entry, each at most once, and none after a failing one; it returns an
\* error exactly when the last removal failed; afterwards the rule set is the
\* set on entry minus the rules whose RemoveMatch succeeded; and without a
\* failure on an open connection every recorded rule was removed.
C5_UnforcedRemoveAllStopsAtFirstFailure ==
    (op.name = "removeAll" /\ ~op.force) =>
        LET n == Len(calls)
            removed == {calls[i].arg : i \in {j \in 1..n : calls[j].ok}}
        IN /\ \A i \in 1..n :
                 /\ calls[i].fn = "RemoveMatch"
                 /\ calls[i].arg \in Recorded(op.pre)
                 /\ \A j \in 1..n : calls[j].arg = calls[i].arg => j = i
           /\ \A i \in 1..(n - 1) : calls[i].ok
           /\ op.err = (n > 0 /\ ~calls[n].ok)
           /\ Recorded(conn) = Recorded(op.pre) \ removed
           /\ (IsOpen(op.pre) /\ ~op.err) => removed = Recorded(op.pre)

C5_Witness ==
    /\ op.name = "removeAll" /\ ~op.force /\ op.err
    /\ Len(calls) < Cardinality(Recorded(op.pre))

\* C6: no shared handle is ever disconnected; close() disconnects a handle
\* if and only if the connection was open and exclusive, and then the handle
\* it held; every close leaves the connection not open; closing a closed
\* connection calls nothing, succeeds and changes nothing.
C6_CloseDisconnectsOnlyExclusive ==
    /\ disconnected \cap SharedHandles = {}
    /\ (op.name = "close") =>
          /\ ~IsOpen(conn)
          /\ IF IsOpen(op.pre) /\ op.pre.exclusive
             THEN OneCall("Close", op.pre.dbus, "") /\ op.pre.dbus \in disconnected
             ELSE calls = <<>> /\ ~op.err
          /\ ~IsOpen(op.pre) => conn = op.pre

C6_Witness ==
    /\ op.name = "close"
    /\ op.pre.dbus \in SharedHandles
    /\ calls = <<>>
    /\ ~IsOpen(conn)

\* C7: whenever the helper is open, every recorded rule is registered on the
\* handle that is open: its AddMatch succeeded on that handle.
C7_RecordedRulesAreRegisteredOnOpenHandle ==
    IsOpen(conn) => \A r \in Recorded(conn) : conn.matchRules[r] = conn.dbus

(***************************************************************************)
(* Properties of opening and reopening, checked under SpecBlocks, where    *)
(* the three Run loops call Open, open and openConn.                       *)
(***************************************************************************)
\* the log from position i holds exactly a Close of handle h
EndsWithClose(i, h) ==
    /\ Len(calls) = i
    /\ calls[i].fn = "Close"
    /\ calls[i].h = h

\* the operation returned an error and left the connection closed
FailedClosed == op.err /\ ~IsOpen(conn)

\* C8: an exclusive open calls Dial, then Auth, then Hello, each on the handle
\* Dial gave; after a step fails nothing more is attempted but the disconnect
\* of that handle, the error is returned and the connection is left closed.
C8_DialAuthHelloInOrder ==
    /\ \A i \in CallsOf("Dial") :
          IF ~calls[i].ok
          THEN Len(calls) = i /\ FailedClosed
          ELSE /\ Len(calls) > i
               /\ calls[i + 1].fn = "Auth"
               /\ calls[i + 1].h = calls[i].h
               /\ IF ~calls[i + 1].ok
                  THEN EndsWithClose(i + 2, calls[i].h) /\ FailedClosed
                  ELSE /\ Len(calls) > i + 1
                       /\ calls[i + 2].fn = "Hello"
                       /\ calls[i + 2].h = calls[i].h
                       /\ ~calls[i + 2].ok =>
                             (EndsWithClose(i + 3, calls[i].h) /\ FailedClosed)
    /\ \A i \in CallsOf("Auth") :
          i > 1 /\ calls[i - 1].fn = "Dial" /\ calls[i - 1].ok
    /\ \A i \in CallsOf("Hello") :
          i > 1 /\ calls[i - 1].fn = "Auth" /\ calls[i - 1].ok

C8_Witness ==
    /\ \E i \in CallsOf("Hello") : ~calls[i].ok /\ EndsWithClose(i + 1, calls[i].h)
    /\ FailedClosed
    /\ driver = "ToDBus"

\* the calls that begin an open
OpenCalls == {"SystemBus", "SessionBus", "Dial"}

\* the bus the address names, ignoring letter case
BusOf(address) ==
    LET la == ToLower(address)
    IN IF la \in {StrSystem, StrAtSystem} THEN "SystemBus"
       ELSE IF la \in {StrSession, StrAtSession} THEN "SessionBus"
       ELSE "Dial"

\* C9: an open of address a takes the system bus for system and @system, the
\* session bus for session and @session, ignoring letter case, and dials every
\* other address; a connection is exclusive exactly when it was dialed.
C9_AddressSelectsBus ==
    /\ \A i \in DOMAIN calls :
          calls[i].fn \in OpenCalls => calls[i].fn = BusOf(op.addr)
    /\ IsOpen(conn) => (conn.exclusive <=> conn.dbus \in DialHandles)

\* C10: a block never leaves a handle it dialed undisconnected, other than the
\* one it holds; when a rule handler opens a connection while one is open, an
\* exclusive handle was disconnected before the open began and a shared handle
\* is not disconnected at all; and a rule message with a different address that
\* is processed without error while a connection is open does reopen.
C10_PreviousClosedBeforeOpen ==
    /\ \A n \in 1..(nextDial - 1) :
          Dialed(n) = conn.dbus \/ Dialed(n) \in disconnected
    /\ (op.name = "rule" /\ IsOpen(op.pre)) =>
          /\ \A i \in DOMAIN calls :
                calls[i].fn \in OpenCalls =>
                   IF op.pre.exclusive
                   THEN \E j \in 1..(i - 1) :
                           calls[j].fn = "Close" /\ calls[j].h = op.pre.dbus
                   ELSE \A j \in CallsOf("Close") : calls[j].h # op.pre.dbus
          /\ (op.differs /\ ~op.err) =>
                /\ \E i \in DOMAIN calls : calls[i].fn \in OpenCalls
                /\ blk.address = op.addr

C10_Witness ==
    /\ op.name = "rule" /\ op.differs /\ ~op.err
    /\ IsOpen(op.pre) /\ op.pre.exclusive
    /\ driver = "FromDBus"
    /\ \E i, j \in DOMAIN calls :
          /\ i < j
          /\ calls[i].fn = "Close" /\ calls[i].h = op.pre.dbus
          /\ calls[j].fn \in OpenCalls
    /\ IsOpen(conn)

(***************************************************************************)
(* Properties of the signature engine, checked under SpecConv.             *)
(***************************************************************************)
\* what is left of signature sig after its first k top-level types
RECURSIVE RemAfter(_, _)
RemAfter(sig, k) == IF k = 0 THEN sig ELSE RemAfter(dbusTypeFor(sig).rem, k - 1)

\* the call returned: no error and no panic
Returned(r) == r.err = NoErr /\ r.panic = NoPanic

\* C11: DBusConv converts the i-th value with the i-th top-level type of the
\* signature, at depth 0, and returns the converted values in that order; it
\* returns without error exactly when the whole signature was walked; when the
\* values run out before the signature does, it ends with the run-time
\* index-out-of-range error; otherwise it ends as the first conversion that
\* does not return a value ends.
C11_ConvertAllWalksTopLevelTypes ==
    (cv.fn = "convertAll") =>
        LET out == cv.out
            n   == Len(out.res)
            s   == RemAfter(cv.sig, n)
        IN /\ n <= Len(cv.args)
           /\ \A i \in 1..n :
                 LET c == dbusConv(RemAfter(cv.sig, i - 1), 0, cv.args[i], cv.rev)
                 IN Returned(c) /\ out.res[i] = c.res
           /\ IF s = <<>> THEN Returned(out)
              ELSE IF n = Len(cv.args)
              THEN out.panic = PanicBounds /\ out.err = NoErr
              ELSE LET c == dbusConv(s, 0, cv.args[n + 1], cv.rev)
                   IN ~Returned(c) /\ out.err = c.err /\ out.panic = c.panic

C11_Witness ==
    /\ cv.fn = "convertAll"
    /\ cv.sig = <<"s", "i">>
    /\ cv.args = <<String("abc")>>
    /\ cv.out.res = <<String("abc")>>
    /\ cv.out.panic = PanicBounds

\* the number of array levels a signature opens with
ArrayLevels(sig) == ArrayRun(sig)

NestingTooDeep == <<"bad signature: nesting too deep">>

\* C12: a conversion against a signature nested more than 64 array levels deep
\* fails with the nesting-too-deep error, and no conversion gets past the depth
\* guard at a depth greater than 64.
C12_DeepSignatureIsRejected ==
    (cv.fn = "convert") =>
        /\ cv.out.deep <= MaxDepth
        /\ (cv.depth = 0 /\ ArrayLevels(cv.sig) > MaxDepth) =>
              (cv.out.err.text = NestingTooDeep /\ cv.out.res = NilVal)

\* the signature is a dict, an array, a structure
IsDictSig(sig)   == Len(sig) > 1 /\ sig[1] = "a" /\ sig[2] = "{"
IsArraySig(sig)  == Len(sig) > 0 /\ sig[1] = "a" /\ ~IsDictSig(sig)
IsStructSig(sig) == Len(sig) > 0 /\ sig[1] = "("

\* the span of a dict or a structure signature that the conversion cuts the
\* sub-signatures from
InnerSpan(sig) ==
    LET rem == dbusTypeFor(sig).rem
    IN IF IsDictSig(sig) THEN Sub(sig, 2, Len(sig) - Len(rem) - 1)
       ELSE Sub(sig, 1, Len(sig) - Len(rem))

\* the signature of the element of an array signature
ElemSig(sig) == Sub(sig, 1, Len(sig) - Len(dbusTypeFor(sig).rem))

\* the call is not one the depth guard turns away
PastGuard == cv.depth <= MaxDepth

\* a container signature that resolves, with an input of a shape the
\* conversion takes element by element
ContainerCase(sig, arg) ==
    /\ dbusTypeFor(sig).err = NoErr
    /\ \/ IsDictSig(sig) /\ Kind(arg[1]) = "map"
       \/ IsArraySig(sig) /\ Kind(arg[1]) = "slice"
       \/ /\ IsStructSig(sig)
          /\ Kind(arg[1]) \in {"slice", "struct"}
          /\ Len(arg[2]) = NumField(dbusTypeFor(sig).t)

\* the conversions a container conversion is made of, in the order it makes
\* them: each the sub-signature and the value it is applied to
Parts(sig, arg, rev) ==
    IF IsDictSig(sig)
    THEN LET keys == MapKeys(arg[2], rev)
             in   == InnerSpan(sig)
         IN [j \in 1..(2 * Len(keys)) |->
               IF j % 2 = 1
               THEN [sig |-> Sub(in, 0, 1), val |-> keys[(j + 1) \div 2][1]]
               ELSE [sig |-> From(in, 1), val |-> keys[j \div 2][2]]]
    ELSE IF IsArraySig(sig)
    THEN [j \in 1..Len(arg[2]) |-> [sig |-> ElemSig(sig), val |-> arg[2][j]]]
    ELSE [j \in 1..Len(arg[2]) |->
            [sig |-> RemAfter(InnerSpan(sig), j - 1), val |-> arg[2][j]]]

\* the j-th of these conversions, made one level below the container
Part(j) ==
    LET ps == Parts(cv.sig, cv.args[1], cv.rev)
    IN dbusConv(ps[j].sig, cv.depth + 1, ps[j].val, cv.rev)

\* the conversions that return an error, all conversions before them having
\* returned a value
FailingParts ==
    {j \in DOMAIN Parts(cv.sig, cv.args[1], cv.rev) :
        /\ Part(j).err # NoErr
        /\ \A i \in 1..(j - 1) : Returned(Part(i))}

\* C13: when the conversion of an element, key, value or field of a container
\* returns an error, all those before it having succeeded, the conversion of
\* the container returns that same error and no value.
C13_FirstFailureAbortsContainer ==
    (cv.fn = "convert" /\ PastGuard /\ ContainerCase(cv.sig, cv.args[1])) =>
        \A j \in FailingParts :
            /\ cv.out.err = Part(j).err
            /\ cv.out.res = NilVal
            /\ cv.out.panic = NoPanic

\* C14: a structure signature of n fields converts a sequence or a structure
\* of n values, each of which converts with its field's sub-signature, to the
\* record of the n converted values in order; with another number of values it
\* returns the arity error that names the two counts.
C14_RecordConversion ==
    (/\ cv.fn = "convert"
     /\ PastGuard
     /\ IsStructSig(cv.sig)
     /\ dbusTypeFor(cv.sig).err = NoErr
     /\ Kind(cv.args[1][1]) \in {"slice", "struct"}) =>
        LET n   == NumField(dbusTypeFor(cv.sig).t)
            arg == cv.args[1]
        IN IF Len(arg[2]) # n
           THEN /\ cv.out.err.text = <<"unable to convert struct: field count mismatch">>
                /\ cv.out.err.got = Len(arg[2])
                /\ cv.out.err.want = n
                /\ cv.out.res = NilVal
           ELSE (\A j \in 1..n : Returned(Part(j))) =>
                   /\ Returned(cv.out)
                   /\ cv.out.res = <<StructOf(n), [j \in 1..n |-> Part(j).res]>>

NonKeyCodes == {"a", "(", "v"}

\* C16: the conversion of a mapping against a dict signature whose key is a
\* container or a variant returns an error and no value.
C16_ContainerOrVariantKeyIsRejected ==
    (/\ cv.fn = "convert"
     /\ PastGuard
     /\ IsDictSig(cv.sig)
     /\ Len(cv.sig) > 2
     /\ cv.sig[3] \in NonKeyCodes
     /\ Kind(cv.args[1][1]) = "map") =>
        /\ cv.out.err # NoErr
        /\ cv.out.res = NilVal

\* the text between a{ and its matching } in a dict signature
DictSpan(sig) == Sub(sig, 2, match(sig, "{", "}"))

\* C17: a dict signature with fewer than two characters between a{ and the
\* matching } does not resolve, and one that resolves has between them one key
\* code followed by one value signature that uses up the rest of the span.
C17_DictSpanIsKeyAndOneValue ==
    (/\ cv.fn = "resolve"
     /\ IsDictSig(cv.sig)
     /\ match(cv.sig, "{", "}") > 0) =>
        LET span == DictSpan(cv.sig)
        IN /\ Len(span) < 2 => (cv.out.err # NoErr /\ cv.out.t = NilType)
           /\ cv.out.err = NoErr =>
                 /\ Len(span) >= 2
                 /\ dbusTypeFor(Sub(span, 0, 1)).err = NoErr
                 /\ dbusTypeFor(From(span, 1)).err = NoErr
                 /\ dbusTypeFor(From(span, 1)).rem = <<>>

\* the number of types a span resolves into one after the other, or -1 when
\* some part of it does not resolve
RECURSIVE CountFields(_)
CountFields(span) ==
    IF span = <<>> THEN 0
    ELSE LET r == dbusTypeFor(span)
         IN IF r.err # NoErr THEN -1
            ELSE LET c == CountFields(r.rem)
                 IN IF c < 0 THEN -1 ELSE c + 1

\* C18: a structure signature resolves exactly when the span between ( and the
\* matching ) resolves into n fields, n from 1 to 16, and then to the record
\* of arity n, leaving what follows the ); an empty span is the
\* empty-structure error, more than 16 fields the too-many-fields error, and a
\* ( without its ) the unmatched error.
C18_StructureArity ==
    (cv.fn = "resolve" /\ IsStructSig(cv.sig)) =>
        LET i == match(cv.sig, "(", ")")
        IN IF i < 0
           THEN /\ cv.out.err.text = <<"bad signature: unmatched ')'">>
                /\ cv.out.t = NilType
           ELSE LET n == CountFields(Sub(cv.sig, 1, i))
                IN /\ (cv.out.err = NoErr) <=> (n \in 1..MaxFields)
                   /\ (n \in 1..MaxFields) =>
                         /\ cv.out.t = StructOf(n)
                         /\ NumField(cv.out.t) = n
                         /\ cv.out.rem = From(cv.sig, i + 1)
                   /\ (n = 0) => cv.out.err.text = <<"bad signature: empty structure">>
                   /\ (n > MaxFields) =>
                         cv.out.err.text = <<"bad signature: structure has too many fields">>

\* a structure of sixteen fields was resolved
C18_Witness ==
    /\ cv.fn = "resolve"
    /\ cv.sig = StructSig(MaxFields)
    /\ cv.out.err = NoErr
    /\ NumField(cv.out.t) = MaxFields

\* the signature is one complete type: it resolves and nothing is left of it
Resolves(sig) == dbusTypeFor(sig).err = NoErr /\ dbusTypeFor(sig).rem = <<>>

\* the enumerated signatures that are one complete type, and the type each
\* resolves to
CompleteSigs == {s \in GenSigs : Resolves(s)}
TypeOfSig == [s \in CompleteSigs |-> dbusTypeFor(s).t]

\* C19: two different signatures that resolve never resolve to the same type,
\* which is what lets the signature be read back from the resolved type.
C19_ResolveIsInjective ==
    (cv.fn = "resolve" /\ cv.out.err = NoErr /\ cv.out.rem = <<>>) =>
        \A s \in CompleteSigs : s # cv.sig => TypeOfSig[s] # cv.out.t

\* the last operation was made on a closed connection
OnClosed == op.name # "none" /\ ~IsOpen(op.pre)

\* C23: on a closed connection the insertion of a rule, the removal of a rule
\* and the unforced removal of all rules issue no bus call, leave the helper as
\* it was, recorded rules included, and return no error.
C23_ClosedConnectionRuleOpsAreNoOps ==
    (/\ OnClosed
     /\ \/ op.name \in {"insert", "remove"}
        \/ op.name = "removeAll" /\ ~op.force) =>
        /\ calls = <<>>
        /\ conn = op.pre
        /\ ~op.err

\* a recorded rule was removed on a closed connection and is still recorded
C23_Witness ==
    /\ OnClosed
    /\ op.name = "remove"
    /\ op.rule \in Recorded(op.pre)
    /\ op.rule \in Recorded(conn)
    /\ driver = "util"

\* rem is what is left of sig after a non-empty front of it
StrictSuffix(rem, sig) ==
    /\ Len(rem) < Len(sig)
    /\ rem = From(sig, Len(sig) - Len(rem))

\* C25: a resolve that succeeds returns as remainder its input without a
\* non-empty front, so that the resolves it makes of remainders and of inner
\* spans are of shorter signatures; and a walk of DBusConv that returns has
\* taken one top-level type for each value and has left nothing of the
\* signature.
C25_ResolveConsumesAFront ==
    /\ (cv.fn = "resolve" /\ cv.out.err = NoErr) => StrictSuffix(cv.out.rem, cv.sig)
    /\ (cv.fn = "convertAll" /\ Returned(cv.out)) =>
          /\ cv.out.rem = <<>>
          /\ RemAfter(cv.sig, Len(cv.out.res)) = <<>>
          /\ \A k \in 1..Len(cv.out.res) :
                StrictSuffix(RemAfter(cv.sig, k), RemAfter(cv.sig, k - 1))

\* a structure was resolved and left what follows it
C25_Witness ==
    /\ cv.fn = "resolve"
    /\ IsStructSig(cv.sig)
    /\ cv.out.err = NoErr
    /\ cv.out.rem # <<>>
    /\ cv.out.rem # Sub(cv.sig, 0, Len(cv.out.rem))

\* the number of positions up to p, counted from 0, that hold character c
CountUpTo(s, c, p) == Cardinality({i \in 1..(p + 1) : s[i] = c})

\* the depth after position p: the openers so far less the closers so far
DepthAt(s, left, right, p) == CountUpTo(s, left, p) - CountUpTo(s, right, p)

\* the positions after which the depth is zero
ZeroDepth(s, left, right) ==
    {p \in 0..(Len(s) - 1) : DepthAt(s, left, right, p) = 0}

\* C26: for a signature that begins with the opening delimiter, match returns
\* the first position after which the depth is back to zero, which holds the
\* closing delimiter that matches the first opener, and -1 when the depth
\* never gets back to zero.
C26_MatchFindsTheMatchingCloser ==
    (cv.fn = "match" /\ Len(cv.sig) > 0 /\ cv.sig[1] = cv.out.left) =>
        LET zs == ZeroDepth(cv.sig, cv.out.left, cv.out.right)
        IN IF zs = {}
           THEN cv.out.idx = -1
           ELSE /\ cv.out.idx \in zs
                /\ \A p \in zs : cv.out.idx <= p
                /\ cv.sig[cv.out.idx + 1] = cv.out.right

\* the closer of a pair was found after a nested pair
C26_Witness ==
    /\ cv.fn = "match"
    /\ cv.sig = <<"(", "(", "i", ")", ")">>
    /\ cv.out.left = "("
    /\ cv.out.idx = 4

(***************************************************************************)
(* Properties of the blocks' handlers, checked under SpecBlocks.           *)
(***************************************************************************)
\* the inbound block has just handled a rule message and reported no error
FromRuleAccepted == driver = "FromDBus" /\ op.name = "rule" /\ ~op.err

\* C21: after a rule message that the inbound block handles without reporting
\* an error, the connection is open, the recorded rules are exactly the filter
\* of the message, and that filter is the one the query route reports.
C21_AcceptedRuleLeavesExactlyItsFilter ==
    FromRuleAccepted =>
        /\ isOpen(conn)
        /\ Recorded(conn) = {op.rule}
        /\ blk.filter = op.rule

\* the inbound block has left its loop
FromQuitDone == driver = "FromDBus" /\ blk.pc = "done"

\* C22: the inbound block leaves its loop only through the quit handler, which
\* is then the last event handled.  If the connection was open, the handler
\* issued one RemoveMatch on its handle for every recorded rule, whatever the
\* outcome of the others, then disconnected the handle if it was exclusive, and
\* nothing else; if it was closed it issued no call.  Afterwards no rule is
\* recorded and the connection is closed.
C22_QuitRemovesThenCloses ==
    FromQuitDone =>
        /\ op.name = "quit"
        /\ Recorded(conn) = {}
        /\ ~isOpen(conn)
        /\ IF ~isOpen(op.pre)
           THEN calls = <<>>
           ELSE LET n == Cardinality(Recorded(op.pre))
                IN /\ Len(calls) = n + (IF op.pre.exclusive THEN 1 ELSE 0)
                   /\ \A i \in 1..n :
                         calls[i].fn = "RemoveMatch" /\ calls[i].h = op.pre.dbus
                   /\ {calls[i].arg : i \in 1..n} = Recorded(op.pre)
                   /\ op.pre.exclusive =>
                         (calls[n + 1].fn = "Close" /\ calls[n + 1].h = op.pre.dbus)

\* the block quit with two rules recorded on an exclusive connection; the
\* first removal failed and the second was still issued before the disconnect
C22_Witness ==
    /\ FromQuitDone
    /\ isOpen(op.pre) /\ op.pre.exclusive
    /\ Len(calls) = 3
    /\ calls[1].fn = "RemoveMatch" /\ ~calls[1].ok
    /\ calls[2].fn = "RemoveMatch"
    /\ calls[3].fn = "Close"

\* the settings of the outbound block that its query route reports
ToSettings(b) == <<b.address, b.dest, b.path, b.name, b.signature>>

\* C24: a rule message for which the outbound block reports an error leaves
\* the block's address, destination, path, method name and signature as they
\* were before the message.
C24_RejectedRuleKeepsSettings ==
    [][(driver = "ToDBus" /\ op'.name = "rule" /\ op'.err) =>
          ToSettings(blk') = ToSettings(blk)]_vars

====
